---- MODULE Spec2Model ----
(***************************************************************************)
(* Model of the HTTP/SSE MCP server of obsidian-mcp-tools-web:             *)
(*   - ObsidianMcpServer (features/core): the session registry             *)
(*     `transports`, handleSSEConnection and handlePostMessage;            *)
(*   - OAuthTokenManager (shared/oauth.ts): the token cache, getToken,     *)
(*     fetchToken, clearCache;                                             *)
(*   - main (index.ts): start-up, the routes and the gate                  *)
(*     authenticateApiKey;                                                 *)
(*   - makeRequest (shared/makeRequest.ts): the credential of outbound     *)
(*     calls to the local API.                                             *)
(* Every `await` of the source is a point where other handlers may run.    *)
(* The MCP SDK (Server, SSEServerTransport) and the token endpoint are the *)
(* environment: their callbacks and answers are nondeterministic.          *)
(***************************************************************************)
EXTENDS Integers, Sequences, FiniteSets, TLC

\* ------------------------------------------------------------------ bounds
MaxRequests == 3        \* HTTP requests (GET /sse and POST /message
                        \* together) served in one run

MaxCalls == 3           \* getToken() calls made in one run
MaxTime == 120000       \* the clock (Date.now(), in ms) stops here

TransportIds == 1..MaxRequests
Posts == 1..MaxRequests
Calls == 1..MaxCalls

\* `undefined`: what Map.get returns for an absent key; also "no sessionId
\* parameter" and "the Server has no transport".
NoTransport == 0

\* HTTP statuses written by handlePostMessage.
BadRequest == 400
SessionNotFound == 404
InternalError == 500

\* The validity buffer of getToken and the factor of expires_in (seconds).
BufferMs == 60000
MsPerSecond == 1000

\* `undefined` as a token (a response without access_token), and NaN as a
\* time (Date.now() + undefined * 1000).
Undefined == 0
NaN == -1

\* The clock advances in steps of 30 s; the endpoint reports lifetimes of
\* 30 s (shorter than the buffer) and 120 s.
ClockSteps == {30000}
Lifetimes == {30, 120}

\* HTTP statuses written by index.ts: the health check and the gate.
Ok == 200
Unauthorized == 401

\* Credential values a request may carry: the configured static key, a value
\* that is neither the key nor a token, the empty string, and the first
\* token the endpoint issues. Tokens are the numbers 1, 2, ... in order of
\* issue.
StaticKey == 10
Wrong == 11
Empty == 12
FirstToken == 1
CredValues == {Undefined, Empty, StaticKey, Wrong, FirstToken}

VARIABLES
    transports,     \* this.transports: Map<string, SSEServerTransport>
    nextId,         \* number of SSEServerTransport objects constructed so far
    conn,           \* conn[t]: where handleSSEConnection stands for transport t
    stream,         \* stream[t]: the SSE response of t: "none", "open", "closed"
    handled,        \* handled[t]: onclose/onerror callbacks run for t: 0, 1, 2 (= more)
    coreTransport,  \* the transport the one shared Server is connected to
    post,           \* post[r]: the r-th POST /message request, in the order
                    \* in which handlePostMessage is entered
    forwarded,      \* calls transport.handlePostMessage(...), in call order
    sse,            \* sse[t]: the HTTP response of the GET /sse of transport t
    cachedToken,    \* OAuthTokenManager.cachedToken: << >> (null) or <<entry>>
    now,            \* Date.now()
    call,           \* call[c]: the c-th getToken() call, in order of entry
    fetches,        \* requests sent to the token endpoint
    issued,         \* tokens the endpoint has issued
    lastResp,       \* the answer of the token endpoint delivered last
    clearedAt,      \* getToken() calls entered when clearCache() last ran (-1: never)
    env,            \* process.env: the four configuration variables
    started,        \* main(): "no", "listening" or "failed"
    req,            \* the inbound HTTP request handled last by index.ts
    outCache,       \* cachedToken of the OAuthTokenManager of makeRequest.ts
    out             \* the makeRequest() call made last

sessVars == <<transports, nextId, conn, stream, handled, coreTransport,
              post, forwarded, sse>>

oauthVars == <<cachedToken, now, call, fetches, issued, lastResp, clearedAt>>

gateVars == <<env, started, req>>

outVars == <<outCache, out>>

vars == <<sessVars, oauthVars, gateVars, outVars>>

\* What an action of one component leaves alone.
nonSessVars == <<oauthVars, gateVars, outVars>>
nonOAuthVars == <<sessVars, gateVars, outVars>>

\* ---------------------------------------------------- the session registry

\* transport.sessionId: the SDK draws it with randomUUID() when the transport
\* is constructed; a fresh value per transport.
SessionIdOf(t) == t

\* Mutant of TransportsGet: the lookup also demands an open stream.
TransportsGetOpenOnly(m, id) ==
    IF id \in DOMAIN m /\ stream[m[id]] = "open" THEN m[id] ELSE NoTransport

\* this.transports.get(sessionId)
TransportsGet(m, id) == IF id \in DOMAIN m THEN m[id] ELSE NoTransport

\* Mutant of TransportsSet: the map is rebuilt with the new entry alone.
TransportsSetAlone(m, id, t) == [k \in {id} |-> t]

\* this.transports.set(sessionId, transport)
TransportsSet(m, id, t) ==
    [k \in DOMAIN m \cup {id} |-> IF k = id THEN t ELSE m[k]]

\* Mutant of TransportsDelete: the handler logs and forgets to delete.
TransportsDeleteNothing(m, id) == m

\* this.transports.delete(sessionId)
TransportsDelete(m, id) == [k \in DOMAIN m \ {id} |-> m[k]]

\* The session ids whose close (onclose or onerror) has run at least once.
ClosedIds == {SessionIdOf(t) : t \in {u \in TransportIds : handled[u] > 0}}

\* The HTTP requests whose handler has been entered: one transport is
\* constructed per GET /sse, one handlePostMessage runs per POST /message.
Served == nextId + Cardinality({r \in Posts : post[r].pc # "idle"})

\* An HTTP response (res) nothing has been written to: the status line, whether
\* the body is a JSON object {error: text}, how many responses were written,
\* and whether an exception is propagating out of the code that handles it.
NoRes == [status |-> 0, json |-> FALSE, text |-> "", written |-> 0,
          threw |-> FALSE]

IdlePost == [pc |-> "idle", sessionId |-> NoTransport, transport |-> NoTransport,
             status |-> 0, afterClose |-> FALSE,
             resultOn |-> NoTransport,
             json |-> FALSE, text |-> "", written |-> 0, threw |-> FALSE]

\* res.headersSent
HeadersSent(res) == res.status # 0

\* res.writeHead(status, ...) followed by res.end(body): the response is
\* written, unless one was written before: then writeHead throws
\* (ERR_HTTP_HEADERS_SENT) and nothing reaches the client.
WriteHead(res, status, json, text) ==
    IF HeadersSent(res) THEN [res EXCEPT !.threw = TRUE]
    ELSE [res EXCEPT !.status = status, !.json = json, !.text = text,
                     !.written = @ + 1]

\* An exception leaves the code that runs for this response.
Throw(res) == [res EXCEPT !.threw = TRUE]

\* transport.handlePostMessage(req, res, parsedBody) of the SDK: a transport
\* with an open stream answers 202 "Accepted"; one without writes a plain
\* text 500 itself and then throws.
TransportHandlePostMessage(res, open) ==
    IF open THEN WriteHead(res, 202, FALSE, "Accepted")
    ELSE Throw(WriteHead(res, InternalError, FALSE,
                         "SSE connection not established"))

\* The catch block of handlePostMessage: whatever was thrown inside the try
\* is answered with writeHead(500) and a JSON error body, without a look at
\* res.headersSent.
HandlerCatch(res) ==
    IF res.threw
    THEN WriteHead([res EXCEPT !.threw = FALSE], InternalError, TRUE,
                   "Internal server error")
    ELSE res

\* Mutant of RouteCatch: the route handler answers 500 without asking whether
\* a response was started.
RouteCatchUnchecked(res) ==
    IF res.threw
    THEN WriteHead([res EXCEPT !.threw = FALSE], InternalError, TRUE,
                   "error.message")
    ELSE res

\* The catch block of the route handlers of /sse and /message: the error is
\* logged, and answered with status(500).json({error: message}) only when
\* no response was started.
RouteCatch(res) ==
    IF res.threw
    THEN IF ~HeadersSent(res)
         THEN WriteHead([res EXCEPT !.threw = FALSE], InternalError, TRUE,
                        "error.message")
         ELSE [res EXCEPT !.threw = FALSE]
    ELSE res

NoResponse == [kind |-> "none", hasToken |-> FALSE, expiresIn |-> NaN]

\* clearCache() has not been called.
Never == -1

IdleCall == [pc |-> "idle", path |-> "none", outcome |-> "none",
             value |-> Undefined]

\* process.env before the process is started: nothing is set.
NoEnv == [OBSIDIAN_API_KEY |-> Undefined, OAUTH_CLIENT_ID |-> FALSE,
          OAUTH_CLIENT_SECRET |-> FALSE, OAUTH_TOKEN_ENDPOINT |-> FALSE]

\* An Authorization header: its credential, with or without the "Bearer "
\* prefix. An absent header has the credential Undefined.
NoHeader == [bearer |-> FALSE, cred |-> Undefined]

\* A request no response was written for: body is the error text of the
\* response, via the branch of the gate that led to it, logs the records
\* logged while the request was handled.
NoRequest == [pc |-> "none", route |-> "none", authorization |-> NoHeader,
              xApiKey |-> Undefined, apiKey |-> Undefined,
              sessionId |-> NoTransport, status |-> 0, slot |-> 0,
              body |-> "", via |-> "none", logs |-> {}]

NoCall == [pc |-> "none", got |-> "none", authToken |-> Undefined,
           sent |-> FALSE, logs |-> {}]

Init ==
    /\ transports = << >>
    /\ nextId = 0
    /\ conn = [t \in TransportIds |-> "none"]
    /\ stream = [t \in TransportIds |-> "none"]
    /\ handled = [t \in TransportIds |-> 0]
    /\ coreTransport = NoTransport
    /\ post = [r \in Posts |-> IdlePost]
    /\ forwarded = << >>
    /\ sse = [t \in TransportIds |-> NoRes]
    /\ cachedToken = << >>
    /\ now = 0
    /\ call = [c \in Calls |-> IdleCall]
    /\ fetches = 0
    /\ issued = 0
    /\ lastResp = NoResponse
    /\ clearedAt = Never
    /\ env = NoEnv
    /\ started = "no"
    /\ req = NoRequest
    /\ outCache = << >>
    /\ out = NoCall

\* GET /sse, handleSSEConnection up to the await of server.connect: the
\* transport is constructed, registered under its sessionId, and its
\* onclose/onerror handlers are set.
HandleSSEConnection ==
    /\ UNCHANGED nonSessVars
    /\ Served < MaxRequests
    /\ LET transport == nextId + 1
           sessionId == SessionIdOf(transport)
       IN  /\ nextId' = transport
           /\ transports' = TransportsSet(transports, sessionId, transport)
           /\ conn' = [conn EXCEPT ![transport] = "connecting"]
    /\ UNCHANGED <<stream, handled, coreTransport, post, forwarded, sse>>

\* await this.server.connect(transport) resolves: the Server is now bound to
\* this transport and start() has opened the event stream (200, the response
\* stays open).
ConnectResolved(t) ==
    /\ UNCHANGED nonSessVars
    /\ conn[t] = "connecting"
    /\ conn' = [conn EXCEPT ![t] = "established"]
    /\ stream' = [stream EXCEPT ![t] = IF @ = "none" THEN "open" ELSE @]
    /\ coreTransport' = t
    /\ sse' = [sse EXCEPT ![t] = WriteHead(@, Ok, FALSE, "event-stream")]
    /\ UNCHANGED <<transports, nextId, handled, post, forwarded>>

\* Mutant of ConnectRejected: the catch block rethrows without the delete.
ConnectRejectedKeepsSession(t) ==
    /\ UNCHANGED nonSessVars
    /\ conn[t] = "connecting"
    /\ conn' = [conn EXCEPT ![t] = "failed"]
    /\ sse' = [sse EXCEPT ![t] = RouteCatch(Throw(@))]
    /\ UNCHANGED <<transports, nextId, stream, handled, coreTransport, post,
                   forwarded>>

\* await this.server.connect(transport) rejects: the catch block removes the
\* session and rethrows; the catch block of the route handler answers.
ConnectRejected(t) ==
    /\ UNCHANGED nonSessVars
    /\ conn[t] = "connecting"
    /\ conn' = [conn EXCEPT ![t] = "failed"]
    /\ transports' = TransportsDelete(transports, SessionIdOf(t))
    /\ sse' = [sse EXCEPT ![t] = RouteCatch(Throw(@))]
    /\ UNCHANGED <<nextId, stream, handled, coreTransport, post, forwarded>>

\* transport.onclose, called once start() has opened the stream: the client
\* disconnected (or the transport was closed). The Server drops the transport
\* it holds when a transport it was connected to closes.
OnClose(t) ==
    /\ UNCHANGED nonSessVars
    /\ conn[t] = "established"
    /\ transports' = TransportsDelete(transports, SessionIdOf(t))
    /\ handled' = [handled EXCEPT ![t] = IF @ < 2 THEN @ + 1 ELSE @]
    /\ stream' = [stream EXCEPT ![t] = "closed"]
    /\ coreTransport' = NoTransport
    /\ UNCHANGED <<nextId, conn, post, forwarded, sse>>

\* transport.onerror, called by a started transport (for instance on a posted
\* message it cannot parse); the stream stays as it is.
OnError(t) ==
    /\ UNCHANGED nonSessVars
    /\ conn[t] = "established"
    /\ transports' = TransportsDelete(transports, SessionIdOf(t))
    /\ handled' = [handled EXCEPT ![t] = IF @ < 2 THEN @ + 1 ELSE @]
    /\ UNCHANGED <<nextId, conn, stream, coreTransport, post, forwarded, sse>>

\* Mutant of MissingSessionId: the parameter is not checked.
MissingSessionIdNever(sid) == FALSE

\* if (!sessionId): searchParams.get("sessionId") returned null.
MissingSessionId(sid) == sid = NoTransport

\* POST /message, handlePostMessage up to the await of the request body:
\* 400 without a sessionId, 404 when the lookup finds nothing, else the
\* handler keeps the transport it found and waits for the body.
RouteLookup(r, sid) ==
    /\ UNCHANGED nonSessVars
    /\ Served < MaxRequests
    /\ post[r].pc = "idle"
    /\ \A q \in Posts : q < r => post[q].pc # "idle"
    /\ LET transport == TransportsGet(transports, sid)
       IN  IF MissingSessionId(sid)
           THEN post' = [post EXCEPT ![r] =
                        [WriteHead(@, BadRequest, TRUE,
                                   "Missing sessionId parameter")
                            EXCEPT !.pc = "done"]]
           ELSE IF transport = NoTransport
           THEN post' = [post EXCEPT ![r] =
                        [WriteHead(@, SessionNotFound, TRUE,
                                   "Session not found")
                            EXCEPT !.pc = "done", !.sessionId = sid,
                                  !.afterClose = sid \in ClosedIds]]
           ELSE post' = [post EXCEPT ![r] =
                        [@ EXCEPT !.pc = "awaitBody", !.sessionId = sid,
                                  !.transport = transport,
                                  !.afterClose = sid \in ClosedIds]]
    /\ UNCHANGED <<transports, nextId, conn, stream, handled, coreTransport,
                   forwarded, sse>>

\* The body has arrived ("end"). JSON.parse throws on a body that is not JSON:
\* 500. Otherwise the message is handed to the transport found at lookup time:
\* a transport with an open stream accepts it (202) and delivers it to the
\* one shared Server, which sends the result on the transport it is connected
\* to (none: the result is dropped); a transport without an open stream
\* answers 500 itself and throws, so that the writeHead(500) of the catch
\* block throws in turn and the error reaches the route handler.
BodyEnd(r, validJson) ==
    /\ UNCHANGED nonSessVars
    /\ post[r].pc = "awaitBody"
    /\ LET t == post[r].transport
       IN  IF ~validJson
           THEN /\ post' = [post EXCEPT ![r] =
                        [RouteCatch(HandlerCatch(Throw(@)))
                            EXCEPT !.pc = "done"]]
                /\ UNCHANGED forwarded
           ELSE /\ forwarded' = Append(forwarded, r)
                /\ post' = [post EXCEPT ![r] =
                        [RouteCatch(HandlerCatch(
                            TransportHandlePostMessage(@, stream[t] = "open")))
                            EXCEPT !.pc = "done",
                                   !.resultOn = IF stream[t] = "open"
                                                THEN coreTransport ELSE @]]
    /\ UNCHANGED <<transports, nextId, conn, stream, handled, coreTransport,
                   sse>>

\* The request stream reports "error" while the body is awaited: 500.
BodyError(r) ==
    /\ UNCHANGED nonSessVars
    /\ post[r].pc = "awaitBody"
    /\ post' = [post EXCEPT ![r] =
            [RouteCatch(HandlerCatch(Throw(@))) EXCEPT !.pc = "done"]]
    /\ UNCHANGED <<transports, nextId, conn, stream, handled, coreTransport,
                   forwarded, sse>>

Next ==
    \/ HandleSSEConnection
    \/ \E t \in TransportIds : ConnectResolved(t)
    \/ \E t \in TransportIds : ConnectRejected(t)
    \/ \E t \in TransportIds : OnClose(t)
    \/ \E t \in TransportIds : OnError(t)
    \/ \E r \in Posts, sid \in 0..MaxRequests : RouteLookup(r, sid)
    \/ \E r \in Posts, validJson \in BOOLEAN : BodyEnd(r, validJson)
    \/ \E r \in Posts : BodyError(r)

Spec == Init /\ [][Next]_vars

\* ------------------------------------------------------ OAuthTokenManager

\* JavaScript arithmetic and comparison with NaN.
Plus(a, b) == IF a = NaN \/ b = NaN THEN NaN ELSE a + b
Minus(a, b) == IF a = NaN \/ b = NaN THEN NaN ELSE a - b
Less(a, b) == a # NaN /\ b # NaN /\ a < b

\* Mutant of CacheValid: the 60 s buffer is forgotten.
CacheValidNoBuffer(c, t) == c # << >> /\ Less(t, c[1].expiresAt)

\* this.cachedToken && Date.now() < this.cachedToken.expiresAt - 60000
CacheValid(c, t) == c # << >> /\ Less(t, Minus(c[1].expiresAt, BufferMs))

\* What the token endpoint may answer: fetch() rejects, a non-ok status, an ok
\* status with a body that is not JSON, or an ok status with a JSON body
\* that may lack access_token, expires_in or both.
Responses ==
    {[kind |-> k, hasToken |-> FALSE, expiresIn |-> NaN] :
        k \in {"networkError", "httpError", "notJson"}}
    \cup {[kind |-> "json", hasToken |-> h, expiresIn |-> e] :
        h \in BOOLEAN, e \in Lifetimes \cup {NaN}}

\* data.expires_in * 1000
ExpiresInMs(resp) ==
    IF resp.expiresIn = NaN THEN NaN ELSE resp.expiresIn * MsPerSecond

\* Mutant of StoreToken: an entry that is already cached is kept.
StoreTokenIfEmpty(cache, entry) == IF cache = << >> THEN << entry >> ELSE cache

\* this.cachedToken = { token, expiresAt }: the entry replaces whatever the
\* cache held.
StoreToken(cache, entry) == << entry >>

\* getToken(), up to its return from the cache or to the await of fetch():
\* a valid cache entry is returned without a request; otherwise fetchToken
\* sends one request to the token endpoint.
GetToken(c) ==
    /\ UNCHANGED nonOAuthVars
    /\ call[c].pc = "idle"
    /\ \A d \in Calls : d < c => call[d].pc # "idle"
    /\ IF CacheValid(cachedToken, now)
       THEN /\ call' = [call EXCEPT ![c] =
                    [@ EXCEPT !.pc = "done", !.path = "cached",
                              !.outcome = "returned",
                              !.value = cachedToken[1].token]]
            /\ UNCHANGED fetches
       ELSE /\ call' = [call EXCEPT ![c] =
                    [@ EXCEPT !.pc = "fetching",
                              !.path = IF cachedToken = << >> THEN "empty"
                                       ELSE "expired"]]
            /\ fetches' = fetches + 1
    /\ UNCHANGED <<cachedToken, now, issued, lastResp, clearedAt>>

\* The token endpoint answers the request of call c. fetchToken throws on a
\* rejected fetch, a non-ok status and a body that is not JSON, and getToken
\* rethrows; any JSON body is cached as it is and its access_token returned.
FetchResponse(c, resp) ==
    /\ UNCHANGED nonOAuthVars
    /\ call[c].pc = "fetching"
    /\ IF resp.kind = "json"
       THEN LET token == IF resp.hasToken THEN issued + 1 ELSE Undefined
            IN  /\ cachedToken' = StoreToken(cachedToken,
                                    [token |-> token,
                                     expiresAt |-> Plus(now, ExpiresInMs(resp))])
                /\ issued' = IF resp.hasToken THEN issued + 1 ELSE issued
                /\ call' = [call EXCEPT ![c] =
                        [@ EXCEPT !.pc = "done", !.outcome = "returned",
                                  !.value = token]]
       ELSE /\ call' = [call EXCEPT ![c] =
                    [@ EXCEPT !.pc = "done", !.outcome = "threw"]]
            /\ UNCHANGED <<cachedToken, issued>>
    /\ lastResp' = resp
    /\ UNCHANGED <<now, fetches, clearedAt>>

\* Time passes.
Tick(d) ==
    /\ UNCHANGED nonOAuthVars
    /\ now + d <= MaxTime
    /\ now' = now + d
    /\ UNCHANGED <<cachedToken, call, fetches, issued, lastResp, clearedAt>>

\* The getToken() calls entered so far.
Entered == Cardinality({c \in Calls : call[c].pc # "idle"})

\* clearCache(): the cache entry is dropped. A fetch in flight is not
\* cancelled and stores its token when it completes.
ClearCache ==
    /\ UNCHANGED nonOAuthVars
    /\ Entered < MaxCalls
    /\ clearedAt # Entered
    /\ cachedToken' = << >>
    /\ clearedAt' = Entered
    /\ UNCHANGED <<now, call, fetches, issued, lastResp>>

NextOAuth ==
    \/ \E c \in Calls : GetToken(c)
    \/ \E c \in Calls, resp \in Responses : FetchResponse(c, resp)
    \/ \E d \in ClockSteps : Tick(d)
    \/ ClearCache

SpecOAuth == Init /\ [][NextOAuth]_vars

\* --------------------------------------------------- index.ts: main, gate

\* The environments the process may be started with.
Envs == [OBSIDIAN_API_KEY : {Undefined, StaticKey},
         OAUTH_CLIENT_ID : BOOLEAN, OAUTH_CLIENT_SECRET : BOOLEAN,
         OAUTH_TOKEN_ENDPOINT : BOOLEAN]

\* JavaScript truthiness of a credential: undefined and "" are falsy.
Falsy(v) == v \in {Undefined, Empty}

\* a || b
Or(a, b) == IF Falsy(a) THEN b ELSE a

\* Mutant of CreateOAuthManagerFromEnv: one variable of the triple is enough.
CreateOAuthManagerFromAny(e) ==
    e.OAUTH_CLIENT_ID \/ e.OAUTH_CLIENT_SECRET \/ e.OAUTH_TOKEN_ENDPOINT

\* createOAuthManagerFromEnv() returns a manager (TRUE) only when the client
\* id, the client secret and the token endpoint are all set, else null.
CreateOAuthManagerFromEnv(e) ==
    ~(~e.OAUTH_CLIENT_ID \/ ~e.OAUTH_CLIENT_SECRET \/ ~e.OAUTH_TOKEN_ENDPOINT)

\* const API_KEY = process.env.OBSIDIAN_API_KEY
API_KEY == env.OBSIDIAN_API_KEY

\* const oauthManager = createOAuthManagerFromEnv() of main: non-null?
oauthManager == CreateOAuthManagerFromEnv(env)

\* main(): throws before express is set up when neither a static key nor an
\* OAuth manager exists; otherwise registers the routes and listens.
Main(e) ==
    /\ started = "no"
    /\ env' = e
    /\ started' = IF Falsy(e.OBSIDIAN_API_KEY) /\ ~CreateOAuthManagerFromEnv(e)
                  THEN "failed" ELSE "listening"
    /\ UNCHANGED <<req, sessVars, oauthVars, outVars>>

\* authorization?.replace(/^Bearer\s+/i, ''): the prefix is dropped when
\* there is one; an absent header stays undefined.
Replace(h) == h.cred

\* The Authorization headers a request may carry ("Bearer" without a
\* credential does not match the pattern and is a wrong credential).
Authorizations ==
    {[bearer |-> b, cred |-> v] : b \in BOOLEAN, v \in CredValues}
        \ {[bearer |-> TRUE, cred |-> v] : v \in {Undefined, Empty}}

\* The credential sources of a request: the Authorization header, the
\* x-api-key header and the api_key query parameter.
AllHeaders == [authorization : Authorizations, xApiKey : CredValues,
               apiKey : CredValues]

\* The sources of h that are present (an empty header is present).
Sources(h) ==
    {k \in {"authorization", "xApiKey", "apiKey"} :
        IF k = "authorization" THEN h.authorization # NoHeader
        ELSE h[k] # Undefined}

\* Requests with a credential in at most one source.
OneSource == {h \in AllHeaders : Cardinality(Sources(h)) <= 1}

\* Requests carrying the static key, a wrong credential, an empty value or
\* nothing in each source, in every combination.
KeyHeaders == {h \in AllHeaders :
                 FirstToken \notin {h.authorization.cred, h.xApiKey, h.apiKey}}

\* Mutant of ProvidedKey: the sources are consulted in the reverse order.
ProvidedKeyQueryFirst(authorization, xApiKey, apiKey) ==
    Or(Or(apiKey, xApiKey), Replace(authorization))

\* const providedKey = authorization?.replace(...) || x-api-key || api_key
ProvidedKey(authorization, xApiKey, apiKey) ==
    Or(Or(Replace(authorization), xApiKey), apiKey)

\* The route handlers entered so far, per protected route.
HandlersEntered(route) ==
    IF route = "sse" THEN nextId
    ELSE Cardinality({r \in Posts : post[r].pc # "idle"})

\* A log record: its message, the presence flags that are true in its
\* metadata, and the names of the variables whose raw values it contains.
LogRecord(event, flags, raw) == [event |-> event, flags |-> flags, raw |-> raw]

\* oauth.ts: logger.debug("Fetching OAuth token", { tokenEndpoint })
FetchingLog == LogRecord("Fetching OAuth token", {}, {"OAUTH_TOKEN_ENDPOINT"})

\* oauth.ts: logger.debug("OAuth token fetched successfully", { expiresIn })
FetchedLog == LogRecord("OAuth token fetched successfully", {}, {})

\* oauth.ts: logger.error("Failed to fetch OAuth token", { error })
FailedLog == LogRecord("Failed to fetch OAuth token", {}, {})

\* logger.warn("Unauthorized request - invalid or missing credentials", ...):
\* the path and five presence flags.
WarnLog(r) ==
    LogRecord("Unauthorized request - invalid or missing credentials",
              {f \in {"hasAuth", "hasApiKeyHeader", "hasApiKeyQuery",
                       "hasApiKey", "hasOAuth"} :
                  CASE f = "hasAuth" ->
                          r.authorization.bearer \/ ~Falsy(r.authorization.cred)
                    [] f = "hasApiKeyHeader" -> ~Falsy(r.xApiKey)
                    [] f = "hasApiKeyQuery" -> ~Falsy(r.apiKey)
                    [] f = "hasApiKey" -> ~Falsy(API_KEY)
                    [] f = "hasOAuth" -> oauthManager},
              {})

\* The body of the 401 response: { error: ... }.
UnauthorizedBody == "Unauthorized - Invalid or missing credentials"

\* next(): the gate hands the request to its route handler.
CallNext(r) == [r EXCEPT !.pc = "next",
                         !.slot = HandlersEntered(r.route) + 1]

\* Mutant of Reject: the body tells a missing credential from a wrong one.
RejectRevealing(r) ==
    [r EXCEPT !.pc = "done", !.status = Unauthorized,
              !.body = IF Falsy(ProvidedKey(r.authorization, r.xApiKey,
                                            r.apiKey))
                       THEN "Unauthorized - Missing credentials"
                       ELSE "Unauthorized - Invalid credentials",
              !.logs = @ \cup {WarnLog(r)}]

\* The end of authenticateApiKey: logger.warn(...) and
\* res.status(401).json(...); the request ends in the gate.
Reject(r) == [r EXCEPT !.pc = "done", !.status = Unauthorized,
                       !.body = UnauthorizedBody,
                       !.logs = @ \cup {WarnLog(r)}]

\* Mutant of StaticKeyMatches: the static key counts only without OAuth.
StaticKeyMatchesWithoutOAuth(key, providedKey) ==
    ~Falsy(key) /\ providedKey = key
        /\ ~(env.OAUTH_CLIENT_ID /\ env.OAUTH_CLIENT_SECRET
                /\ env.OAUTH_TOKEN_ENDPOINT)

\* if (API_KEY) { if (providedKey === API_KEY) ... }
StaticKeyMatches(key, providedKey) == ~Falsy(key) /\ providedKey = key

\* Mutant of Decide: the token counts only when no static key is configured.
DecideKeyFirst(r, providedKey, validToken) ==
    IF providedKey = validToken /\ Falsy(env.OBSIDIAN_API_KEY)
    THEN [r EXCEPT !.pc = "next", !.slot = HandlersEntered(r.route) + 1]
    ELSE [r EXCEPT !.pc = "done", !.status = Unauthorized]

\* if (providedKey === validToken) next(); else fall through to 401
Decide(r, providedKey, validToken) ==
    IF providedKey = validToken THEN CallNext(r)
    ELSE Reject([r EXCEPT !.via = "compare"])

\* GET /health: answered without the gate.
Health(authorization, xApiKey, apiKey) ==
    /\ started = "listening"
    /\ req.pc # "auth"
    /\ req' = [pc |-> "done", route |-> "health",
               authorization |-> authorization, xApiKey |-> xApiKey,
               apiKey |-> apiKey, sessionId |-> NoTransport, status |-> Ok,
               slot |-> 0, body |-> "ok", via |-> "none", logs |-> {}]
    /\ UNCHANGED <<env, started, sessVars, oauthVars, outVars>>

\* authenticateApiKey, up to next(), to 401 or to the await inside
\* oauthManager.getToken(): a match with the static key passes; otherwise,
\* with an OAuth manager, getToken() returns the cached token while it is
\* valid or sends a request to the token endpoint; without one, 401.
AuthenticateApiKey(route, authorization, xApiKey, apiKey, sid) ==
    /\ started = "listening"
    /\ req.pc # "auth"
    /\ LET providedKey == ProvidedKey(authorization, xApiKey, apiKey)
           r == [pc |-> "auth", route |-> route,
                 authorization |-> authorization, xApiKey |-> xApiKey,
                 apiKey |-> apiKey, sessionId |-> sid, status |-> 0,
                 slot |-> 0, body |-> "", via |-> "none", logs |-> {}]
       IN  IF StaticKeyMatches(API_KEY, providedKey)
           THEN /\ req' = CallNext(r)
                /\ UNCHANGED fetches
           ELSE IF oauthManager
           THEN IF CacheValid(cachedToken, now)
                THEN /\ req' = Decide(r, providedKey, cachedToken[1].token)
                     /\ UNCHANGED fetches
                ELSE /\ fetches < MaxCalls
                     /\ req' = [r EXCEPT !.logs = {FetchingLog}]
                     /\ fetches' = fetches + 1
           ELSE /\ req' = Reject([r EXCEPT !.via = "noManager"])
                /\ UNCHANGED fetches
    /\ UNCHANGED <<env, started, cachedToken, now, call, issued, lastResp,
                   clearedAt, sessVars, outVars>>

\* The token endpoint answers the request sent for the gate: fetchToken
\* caches any JSON body and getToken returns its access_token, which the
\* gate compares with the credential; a rejected fetch, a non-ok status or a
\* body that is not JSON makes getToken throw, which the gate catches: 401.
GateTokenResponse(resp) ==
    /\ req.pc = "auth"
    /\ LET providedKey == ProvidedKey(req.authorization, req.xApiKey,
                                      req.apiKey)
           token == IF resp.hasToken THEN issued + 1 ELSE Undefined
       IN  IF resp.kind = "json"
           THEN /\ cachedToken' = StoreToken(cachedToken,
                                    [token |-> token,
                                     expiresAt |-> Plus(now, ExpiresInMs(resp))])
                /\ issued' = IF resp.hasToken THEN issued + 1 ELSE issued
                /\ req' = Decide([req EXCEPT !.logs = @ \cup {FetchedLog}],
                                 providedKey, token)
           ELSE /\ req' = Reject([req EXCEPT
                            !.via = "catch",
                            !.logs = @ \cup {FailedLog,
                                LogRecord("OAuth token validation failed",
                                          {}, {})}])
                /\ UNCHANGED <<cachedToken, issued>>
    /\ UNCHANGED <<env, started, now, call, fetches, lastResp, clearedAt,
                   sessVars, outVars>>

\* The clock as the gate sees it.
GateTick(d) ==
    /\ started = "listening"
    /\ Tick(d)

NextGate ==
    \/ \E e \in Envs : Main(e)
    \/ \E h \in OneSource : Health(h.authorization, h.xApiKey, h.apiKey)
    \/ \E route \in {"sse", "message"}, h \in OneSource :
          AuthenticateApiKey(route, h.authorization, h.xApiKey, h.apiKey,
                             NoTransport)
    \/ \E resp \in Responses : GateTokenResponse(resp)
    \/ \E d \in ClockSteps : GateTick(d)

SpecGate == Init /\ [][NextGate]_vars

\* The gate on requests with every combination of sources; the token
\* endpoint fails or grants a token of 120 s.
NextExtract ==
    \/ \E e \in Envs : Main(e)
    \/ \E h \in KeyHeaders :
          AuthenticateApiKey("sse", h.authorization, h.xApiKey, h.apiKey,
                             NoTransport)
    \/ \E resp \in {r \in Responses :
                        \/ r.kind = "httpError"
                        \/ r.kind = "json" /\ r.hasToken /\ r.expiresIn = 120} :
          GateTokenResponse(resp)

SpecExtract == Init /\ [][NextExtract]_vars

\* ------------------------------------------- index.ts: gate and handlers

\* Mutant of HandlerDue: the route handler runs whatever the gate decided.
HandlerDueUngated(route) ==
    req.pc \in {"next", "done"} /\ req.route = route
        /\ HandlersEntered(route) < MaxRequests

\* app.get("/sse", authenticateApiKey, handler) and app.post("/message",
\* authenticateApiKey, handler): express runs the route handler when the gate
\* has called next(), and has not run it yet for this request.
HandlerDue(route) ==
    req.pc = "next" /\ req.route = route
        /\ HandlersEntered(route) < req.slot

\* next() enters the handler at once: no request arrives in between.
NoHandlerDue == \A route \in {"sse", "message"} : ~HandlerDue(route)

\* GET /health arrives.
GetHealth(h) ==
    /\ NoHandlerDue
    /\ Health(h.authorization, h.xApiKey, h.apiKey)

\* GET /sse or POST /message arrives and enters the gate.
Arrive(route, h, sid) ==
    /\ NoHandlerDue
    /\ AuthenticateApiKey(route, h.authorization, h.xApiKey, h.apiKey, sid)

\* The handler of GET /sse: mcpServer.handleSSEConnection(req, res).
ServeSSE ==
    /\ HandlerDue("sse")
    /\ HandleSSEConnection

\* The handler of POST /message: mcpServer.handlePostMessage(req, res).
ServeMessage(r) ==
    /\ HandlerDue("message")
    /\ RouteLookup(r, req.sessionId)

\* Requests with the static key, a wrong credential or nothing in the
\* Authorization header.
BearerHeaders ==
    {h \in OneSource :
        /\ h.xApiKey = Undefined /\ h.apiKey = Undefined
        /\ h.authorization \in
              {NoHeader} \cup {[bearer |-> TRUE, cred |-> v] :
                                 v \in {StaticKey, Wrong}}}

\* The environments with the OAuth triple complete or absent.
WholeEnvs == {e \in Envs : e.OAUTH_CLIENT_ID = e.OAUTH_CLIENT_SECRET
                            /\ e.OAUTH_CLIENT_ID = e.OAUTH_TOKEN_ENDPOINT}

\* The whole server, with a token endpoint that is down.
NextServer ==
    \/ \E e \in WholeEnvs : Main(e)
    \/ \E h \in BearerHeaders : GetHealth(h)
    \/ \E h \in BearerHeaders : Arrive("sse", h, NoTransport)
    \/ \E h \in BearerHeaders, sid \in 0..MaxRequests :
          Arrive("message", h, sid)
    \/ \E resp \in {r \in Responses : r.kind = "networkError"} :
          GateTokenResponse(resp)
    \/ ServeSSE
    \/ \E t \in TransportIds : ConnectResolved(t)
    \/ \E r \in Posts : ServeMessage(r)
    \/ \E r \in Posts : BodyEnd(r, TRUE)

SpecServer == Init /\ [][NextServer]_vars

\* ------------------------------------------------------- makeRequest.ts

\* const oauthManager = createOAuthManagerFromEnv() of makeRequest.ts: a
\* second OAuthTokenManager, built from the same environment when the module
\* is loaded, with a cache of its own (outCache).
outboundManager == CreateOAuthManagerFromEnv(env)

\* The names of the variables of process.env that are set: what a log
\* record holding process.env contains, name and raw value.
EnvDump(e) ==
    {k \in DOMAIN e : IF k = "OBSIDIAN_API_KEY"
                      THEN e.OBSIDIAN_API_KEY # Undefined ELSE e[k]}

\* logger.debug("Using OAuth token for authentication")
UsingOAuthLog == LogRecord("Using OAuth token for authentication", {}, {})

\* logger.error("Failed to get OAuth token, falling back to API key", {error})
FallbackLog ==
    LogRecord("Failed to get OAuth token, falling back to API key", {}, {})

\* logger.error("No authentication method available ...", {env: process.env})
NoMethodLog(e) ==
    LogRecord("No authentication method available (neither OAuth nor API key)",
              {}, EnvDump(e))

\* makeRequest(), up to the request to the local API, to the throw, or to the
\* await inside oauthManager.getToken(): with a manager the cached token is
\* used while it is valid, else a token is requested; without a manager the
\* static key is used, and without a key the call logs and throws.
MakeRequest ==
    /\ out.pc # "awaitToken"
    /\ IF outboundManager
       THEN IF CacheValid(outCache, now)
            THEN out' = [pc |-> "done", got |-> "cached",
                         authToken |-> outCache[1].token, sent |-> TRUE,
                         logs |-> {UsingOAuthLog}]
            ELSE /\ issued < MaxCalls
                 /\ out' = [pc |-> "awaitToken", got |-> "none",
                            authToken |-> Undefined, sent |-> FALSE,
                            logs |-> {FetchingLog}]
       ELSE IF ~Falsy(env.OBSIDIAN_API_KEY)
            THEN out' = [pc |-> "done", got |-> "none",
                         authToken |-> env.OBSIDIAN_API_KEY, sent |-> TRUE,
                         logs |-> {}]
            ELSE out' = [pc |-> "done", got |-> "none",
                         authToken |-> Undefined, sent |-> FALSE,
                         logs |-> {NoMethodLog(env)}]
    /\ UNCHANGED <<outCache, sessVars, oauthVars, gateVars>>

\* A tool of the running server calls makeRequest().
ServerMakeRequest ==
    /\ started = "listening"
    /\ MakeRequest

\* The token endpoint answers the request sent for makeRequest: any JSON body
\* is cached and its access_token becomes the bearer credential of the
\* request to the local API; when getToken throws, the static key is used if
\* there is one, else makeRequest throws and sends nothing.
MakeRequestToken(resp) ==
    /\ out.pc = "awaitToken"
    /\ LET token == IF resp.hasToken THEN issued + 1 ELSE Undefined
       IN  IF resp.kind = "json"
           THEN /\ outCache' = StoreToken(outCache,
                                    [token |-> token,
                                     expiresAt |-> Plus(now, ExpiresInMs(resp))])
                /\ issued' = IF resp.hasToken THEN issued + 1 ELSE issued
                /\ out' = [pc |-> "done", got |-> "fetched",
                           authToken |-> token, sent |-> TRUE,
                           logs |-> out.logs \cup {FetchedLog, UsingOAuthLog}]
           ELSE /\ UNCHANGED <<outCache, issued>>
                /\ IF ~Falsy(env.OBSIDIAN_API_KEY)
                   THEN out' = [pc |-> "done", got |-> "threw",
                                authToken |-> env.OBSIDIAN_API_KEY,
                                sent |-> TRUE,
                                logs |-> out.logs \cup {FailedLog, FallbackLog}]
                   ELSE out' = [pc |-> "done", got |-> "threw",
                                authToken |-> Undefined, sent |-> FALSE,
                                logs |-> out.logs \cup {FailedLog, FallbackLog}]
    /\ UNCHANGED <<cachedToken, now, call, fetches, lastResp, clearedAt,
                   sessVars, gateVars>>

\* Inbound requests that carry a bearer token or nothing.
TokenHeaders ==
    {h \in OneSource :
        h.authorization \in {NoHeader, [bearer |-> TRUE, cred |-> FirstToken]}
        /\ h.xApiKey = Undefined /\ h.apiKey = Undefined}

NextOutbound ==
    \/ \E e \in Envs : Main(e)
    \/ \E h \in TokenHeaders :
          AuthenticateApiKey("message", h.authorization, h.xApiKey, h.apiKey,
                             NoTransport)
    \/ \E resp \in Responses : GateTokenResponse(resp)
    \/ ServerMakeRequest
    \/ \E resp \in Responses : MakeRequestToken(resp)
    \/ \E d \in ClockSteps : GateTick(d)

SpecOutbound == Init /\ [][NextOutbound]_vars

\* shared/makeRequest.ts loaded by a process that does not run main() (a
\* test, another entry point): the module builds its OAuth manager from
\* whatever environment the process has, and makeRequest() is exported.
ImportMakeRequest(e) ==
    /\ started = "no"
    /\ env' = e
    /\ started' = "imported"
    /\ UNCHANGED <<req, sessVars, oauthVars, outVars>>

\* makeRequest() called in such a process.
HelperMakeRequest ==
    /\ started = "imported"
    /\ MakeRequest

\* The clock of such a process.
HelperTick(d) ==
    /\ started = "imported"
    /\ Tick(d)

NextHelper ==
    \/ \E e \in Envs : ImportMakeRequest(e)
    \/ HelperMakeRequest
    \/ \E resp \in Responses : MakeRequestToken(resp)
    \/ \E d \in ClockSteps : HelperTick(d)

SpecHelper == Init /\ [][NextHelper]_vars

\* ------------------------------------------------------------------ claims
\* A session that was opened and has seen neither close, error nor a failed
\* connect.
Live(t) == conn[t] \in {"connecting", "established"} /\ handled[t] = 0

\* The step in which POST r performs its session lookup.
LookupStep(r) == post[r].pc = "idle" /\ post'[r].pc # "idle"

\* C1: a POST /message with a sessionId is answered 404 "Session not found"
\* exactly when that id is absent from the session registry at the moment of
\* its lookup; a request whose lookup succeeded is never answered 404 later,
\* whatever opens, routes and closes run in between.
C1_NotFoundIffUnregistered ==
    [][\A r \in Posts :
          /\ (LookupStep(r) /\ post'[r].status # BadRequest) =>
                ((post'[r].status = SessionNotFound)
                    <=> (post'[r].sessionId \notin DOMAIN transports))
          /\ (post[r].pc = "awaitBody") => (post'[r].status # SessionNotFound)
      ]_vars

\* C1 witness: one POST found its session and was accepted while another got
\* 404 for an unregistered id.
C1_Witness ==
    \E r1, r2 \in Posts :
        /\ post[r1].pc = "done" /\ post[r1].status = 202
        /\ post[r2].pc = "done" /\ post[r2].status = SessionNotFound

\* C2 (as claimed): a POST whose session was closed or errored while it was
\* awaiting its body ends with 404 "Session not found".
C2_InFlightRouteEndsNotFound ==
    [][\A r \in Posts :
          (/\ post[r].pc = "awaitBody"
           /\ handled[post[r].transport] > 0
           /\ post'[r].pc = "done")
          => post'[r].status = SessionNotFound
      ]_vars

\* C3 (as claimed): a lookup finds a session only when connect for its
\* transport has resolved, and never one whose close has begun.
C3_RoutableOnlyAfterOpen ==
    [][\A r \in Posts :
          (LookupStep(r) /\ post'[r].pc = "awaitBody")
          => (/\ conn[post'[r].transport] = "established"
              /\ handled[post'[r].transport] = 0)
      ]_vars

C5_ClosedStaysUnroutable ==
    /\ \A id \in ClosedIds : id \notin DOMAIN transports
    /\ \A r \in Posts :
          (post[r].pc # "idle" /\ post[r].afterClose)
          => (post[r].pc = "done" /\ post[r].status = SessionNotFound)

\* C5 witness: a session was closed twice and a later POST to it got 404.
C5_Witness ==
    \E r \in Posts, t \in TransportIds :
        /\ handled[t] >= 2
        /\ post[r].sessionId = SessionIdOf(t)
        /\ post[r].afterClose
        /\ post[r].status = SessionNotFound

\* C6 (as claimed): the result of a message posted to a session is written on
\* the stream of the transport that session was bound to.
C6_ResultOnOwnStream ==
    \A r \in Posts :
        post[r].resultOn # NoTransport => post[r].resultOn = post[r].transport

\* C7 (as claimed): messages of one session reach the transport in the order
\* of their session lookups (POSTs are numbered in lookup order).
C7_ForwardedInLookupOrder ==
    \A i, j \in 1..Len(forwarded) :
        (/\ i < j
         /\ post[forwarded[i]].transport = post[forwarded[j]].transport)
        => forwarded[i] < forwarded[j]

\* The step in which call c enters getToken().
GetTokenStep(c) == call[c].pc = "idle" /\ call'[c].pc # "idle"

\* C8: a getToken() call that finds a cache entry with expiry E returns the
\* cached token without a request when now < E - 60 s, and sends exactly one
\* request when now >= E - 60 s; no other step sends a request.
C8_CachedUntilSixtySecondsBeforeExpiry ==
    [][/\ \A c \in Calls :
            (/\ GetTokenStep(c)
             /\ cachedToken # << >>
             /\ cachedToken[1].expiresAt # NaN)
            => IF now < cachedToken[1].expiresAt - BufferMs
               THEN /\ fetches' = fetches
                    /\ call'[c].pc = "done"
                    /\ call'[c].outcome = "returned"
                    /\ call'[c].value = cachedToken[1].token
               ELSE /\ fetches' = fetches + 1
                    /\ call'[c].pc = "fetching"
       /\ (fetches' # fetches) => (\E c \in Calls : GetTokenStep(c))
      ]_vars

\* C8 witness: one call was served from the cache and a later one, made
\* within 60 s of the expiry or after it, has fetched a new token.
C8_Witness ==
    \E c1, c2 \in Calls :
        /\ call[c1].path = "cached" /\ call[c1].outcome = "returned"
        /\ call[c2].path = "expired" /\ call[c2].outcome = "returned"
        /\ call[c2].value # call[c1].value

\* C9 (as claimed): a getToken() call that starts while the cache is empty or
\* expired and another call's fetch is in flight sends no request of its own.
C9_SingleFlight ==
    [][\A c \in Calls :
          (/\ GetTokenStep(c)
           /\ ~CacheValid(cachedToken, now)
           /\ \E d \in Calls \ {c} : call[d].pc = "fetching")
          => fetches' = fetches
      ]_vars

\* A response that is no token grant: an error, or a JSON body without
\* access_token or without expires_in.
NoGrant(resp) ==
    \/ resp.kind \in {"networkError", "httpError", "notJson"}
    \/ resp.kind = "json" /\ (~resp.hasToken \/ resp.expiresIn = NaN)

\* C10 (as claimed): a call whose fetch ends with a failed or malformed
\* response throws and leaves the cache as it was.
C10_FailedFetchLeavesCache ==
    [][\A c \in Calls :
          (/\ call[c].pc = "fetching"
           /\ call'[c].pc = "done"
           /\ NoGrant(lastResp'))
          => (call'[c].outcome = "threw" /\ cachedToken' = cachedToken)
      ]_vars

\* C11 (as claimed): the first getToken() call entered after clearCache()
\* does not return a token from the cache, also when a fetch that was in
\* flight at the time of clearCache() completed in between.
C11_ClearForcesFetch ==
    [][\A c \in Calls :
          (GetTokenStep(c) /\ clearedAt = Entered)
          => (call'[c].path # "cached" /\ fetches' = fetches + 1)
      ]_vars

\* The sources of the request handled last, and the credential the gate
\* extracted from them.
ReqHeaders == [authorization |-> req.authorization, xApiKey |-> req.xApiKey,
               apiKey |-> req.apiKey]
ReqKey == ProvidedKey(req.authorization, req.xApiKey, req.apiKey)
Protected == {"sse", "message"}

\* OAuth is configured: the complete client id / secret / endpoint triple.
OAuthConfigured ==
    env.OAUTH_CLIENT_ID /\ env.OAUTH_CLIENT_SECRET /\ env.OAUTH_TOKEN_ENDPOINT

\* C12 (as claimed): a request to a protected route that the gate passed
\* carries a credential, and that credential is the configured static key or
\* a token the endpoint issued.
C12_OnlyKnownCredentialPasses ==
    (req.route \in Protected /\ req.pc = "next")
    => /\ Sources(ReqHeaders) # {}
       /\ \/ (env.OBSIDIAN_API_KEY = StaticKey /\ ReqKey = StaticKey)
          \/ (OAuthConfigured /\ ReqKey \in 1..issued)

\* C13: with a static key K configured, a request to a protected route whose
\* extracted credential equals K is passed by the gate at once: it is never
\* rejected and never waits for the token endpoint, whatever the OAuth
\* configuration and the state of the token cache.
C13_StaticKeyAlwaysPasses ==
    (/\ req.route \in Protected
     /\ env.OBSIDIAN_API_KEY = StaticKey
     /\ ReqKey = StaticKey)
    => req.pc = "next"

\* C13 witness: the static key passed while OAuth is configured and the
\* cache holds a token that is no longer valid.
C13_Witness ==
    /\ req.route \in Protected /\ req.pc = "next" /\ ReqKey = StaticKey
    /\ env.OBSIDIAN_API_KEY = StaticKey /\ OAuthConfigured
    /\ cachedToken # << >> /\ ~CacheValid(cachedToken, now)

\* A new request enters the gate in this step.
Arrives == req.pc # "auth" /\ req' # req /\ req'.route \in Protected

C15_GateNeverFetches ==
    [][fetches' = fetches]_vars

\* The value of the first source of h that carries a non-empty value
\* (Undefined when there is none).
FirstCredential(h) ==
    IF h.authorization.cred \notin {Undefined, Empty} THEN h.authorization.cred
    ELSE IF h.xApiKey \notin {Undefined, Empty} THEN h.xApiKey
    ELSE IF h.apiKey \notin {Undefined, Empty} THEN h.apiKey
    ELSE Undefined

\* The value of the first source of h that is present at all.
FirstPresent(h) ==
    IF "authorization" \in Sources(h) THEN h.authorization.cred
    ELSE IF "xApiKey" \in Sources(h) THEN h.xApiKey
    ELSE h.apiKey

\* C18 (amended): the credential of a request is the value of the first
\* source, in the order Authorization header, x-api-key header, api_key
\* parameter, that carries a non-empty value; a request passes by the static
\* key only when that value is the key, so a correct key in a later source
\* does not authenticate a request whose earlier source carries a wrong
\* credential.
C18_FirstNonEmptySource ==
    req.route \in Protected
    => /\ ReqKey \in {FirstCredential(ReqHeaders), Empty}
       /\ (ReqKey = Empty) => (FirstCredential(ReqHeaders) = Undefined)
       /\ (req.pc = "next") => (FirstCredential(ReqHeaders) = StaticKey)

\* C18 witness: a request with a wrong Authorization credential and the
\* correct key in the query parameter was answered 401.
C18_Witness ==
    /\ req.route \in Protected /\ req.status = Unauthorized
    /\ env.OBSIDIAN_API_KEY = StaticKey
    /\ req.authorization.cred = Wrong /\ req.apiKey = StaticKey

\* C18 (as claimed): the credential is the value of the first source that is
\* present; a later source is used only when every earlier one is absent.
C18_FirstPresentSource ==
    (req.route \in Protected /\ ReqKey \notin {Undefined, Empty})
    => ReqKey = FirstPresent(ReqHeaders)

C16_OneTokenCache ==
    (/\ cachedToken # << >> /\ outCache # << >>
     /\ cachedToken[1].token # Undefined /\ outCache[1].token # Undefined)
    => cachedToken[1].token = outCache[1].token

\* C19 (as claimed): with OAuth configured, an outbound call whose getToken
\* returned carries an OAuth token; one whose getToken failed carries the
\* static key when there is one, and otherwise sends no request.
C19_OutboundCredential ==
    (out.pc = "done" /\ OAuthConfigured)
    => /\ (out.got \in {"cached", "fetched"})
            => (out.sent /\ out.authToken \in 1..issued)
       /\ (out.got = "threw" /\ env.OBSIDIAN_API_KEY = StaticKey)
            => (out.sent /\ out.authToken = StaticKey)
       /\ (out.got = "threw" /\ env.OBSIDIAN_API_KEY # StaticKey)
            => ~out.sent

C21_ErrorsCaughtAtBoundary ==
    /\ \A r \in Posts :
          /\ ~post[r].threw
          /\ post[r].written = (IF post[r].pc = "done" THEN 1 ELSE 0)
          /\ (post[r].pc = "done") => HeadersSent(post[r])
          /\ (post[r].status = InternalError)
                => (post[r].json
                    \/ post[r].text = "SSE connection not established")
    /\ \A t \in TransportIds :
          /\ ~sse[t].threw
          /\ sse[t].written =
                (IF conn[t] \in {"established", "failed"} THEN 1 ELSE 0)
          /\ (conn[t] = "failed")
                => (sse[t].status = InternalError /\ sse[t].json)

\* C21 witness: a transport without an open stream had answered a POST 500
\* and thrown, so that the catch block could not answer, and a POST handled
\* after it was accepted.
C21_Witness ==
    \E r1, r2 \in Posts :
        /\ r1 < r2
        /\ post[r1].pc = "done"
        /\ post[r1].status = InternalError /\ ~post[r1].json
        /\ post[r2].pc = "done" /\ post[r2].status = 202

\* The error texts that mention sessionId.
MentionsSessionId == {"Missing sessionId parameter"}

Response(r) == <<r.status, r.body>>

\* C23: every 401 of the gate is the same response, status and body,
\* whatever branch led to it (no credential, a credential that differs from
\* the static key, one that differs from the OAuth token, a failed token
\* fetch) and whatever is configured: it equals the one fixed response, and
\* so equals the 401 of the request rejected before it.
C23_UniformRejection ==
    [][(req' # req /\ req'.status = Unauthorized)
        => /\ Response(req') = <<Unauthorized, UnauthorizedBody>>
           /\ (req.status = Unauthorized) => (Response(req') = Response(req))
      ]_vars

\* C23 witness: with a static key and OAuth configured, a request carrying
\* a wrong credential was rejected because the token fetch failed.
C23_Witness ==
    /\ req.status = Unauthorized /\ req.via = "catch"
    /\ env.OBSIDIAN_API_KEY = StaticKey /\ OAuthConfigured
    /\ ReqKey = Wrong

\* The names whose raw values are credentials: the static key, the OAuth
\* client secret, an OAuth token, the credential a request presented.
Secrets == {"OBSIDIAN_API_KEY", "OAUTH_CLIENT_SECRET", "access_token",
            "providedKey"}

\* C24 (as claimed): no log record written by the gate or by makeRequest
\* contains the raw value of a credential.
C24_NoCredentialInLogs ==
    \A l \in req.logs \cup out.logs : l.raw \cap Secrets = {}

\* C25: the registry holds no session whose open failed or whose stream has
\* ended: in the state a failed connect leaves, and in every state after a
\* close or error handler has run for a transport, the id of that transport
\* is absent, also when later opens, routes and closes follow; only ids of
\* transports that are connecting or established are registered.
C25_NoDeadSessionRegistered ==
    [][/\ \A t \in TransportIds :
            (\/ conn'[t] = "failed"
             \/ handled'[t] > 0
             \/ stream'[t] = "closed")
            => SessionIdOf(t) \notin DOMAIN transports'
       /\ \A id \in DOMAIN transports' :
            conn'[transports'[id]] \in {"connecting", "established"}
      ]_vars

\* C25 witness: one open has failed, one session was closed, a third is
\* registered, and the registry holds the third alone.
C25_Witness ==
    \E t1, t2, t3 \in TransportIds :
        /\ conn[t1] = "failed"
        /\ stream[t2] = "closed"
        /\ Live(t3)
        /\ DOMAIN transports = {SessionIdOf(t3)}

\* The step in which the fetch of call c completes and fetchToken returns.
FetchReturnStep(c) ==
    call[c].pc = "fetching" /\ call'[c].pc = "done"
        /\ call'[c].outcome = "returned"

\* C26: the token cache changes only in the step that completes a fetch
\* whose fetchToken returns and in clearCache(); such a completion stores
\* the token it returns with the expiry computed from its response at that
\* moment, replacing whatever was cached (so with overlapping fetches the
\* cache holds the entry of the one that completed last); clearCache()
\* empties the cache; a getToken() served from the cache returns the cached
\* token and leaves the cache as it is.
C26_CacheWrittenByFetchAndClear ==
    [][/\ (cachedToken' # cachedToken)
            => (\/ \E c \in Calls : FetchReturnStep(c)
                \/ clearedAt' # clearedAt)
       /\ \A c \in Calls :
            FetchReturnStep(c)
            => cachedToken' = << [token |-> call'[c].value,
                                  expiresAt |-> IF lastResp'.expiresIn = NaN
                                                THEN NaN
                                                ELSE now + lastResp'.expiresIn
                                                           * MsPerSecond] >>
       /\ (clearedAt' # clearedAt) => cachedToken' = << >>
       /\ \A c \in Calls :
            (GetTokenStep(c) /\ call'[c].path = "cached")
            => (/\ cachedToken' = cachedToken
                /\ call'[c].value = cachedToken[1].token)
      ]_vars

\* C26 witness: two fetches overlapped, the one issued last completed first,
\* and the cache holds the token of the one issued first, which completed
\* last; a later call was served that token from the cache.
C26_Witness ==
    \E c1, c2, c3 \in Calls :
        /\ c1 < c2 /\ c2 < c3
        /\ call[c1].path = "empty" /\ call[c2].path = "empty"
        /\ call[c1].outcome = "returned" /\ call[c2].outcome = "returned"
        /\ call[c2].value # Undefined
        /\ call[c1].value > call[c2].value
        /\ call[c3].path = "cached"
        /\ cachedToken # << >>
        /\ cachedToken[1].token = call[c1].value

====
